---- MODULE Spec2Model ----
(***************************************************************************)
(* The globalState service of job-runner's browser front-end               *)
(* (static/job_runner/js/services.js) and the route table of the           *)
(* application module.  globalState keeps the active project id, four      *)
(* lazily loaded resources and, through globalCache, the jobs, job         *)
(* templates and workers loaded by initialize.  Every handler runs to      *)
(* completion on the browser's event loop, so each action below is one     *)
(* call of the service or one response callback.                           *)
(***************************************************************************)
EXTENDS Integers, Sequences, FiniteSets, Bags, TLC

\* ---------------------------------------------------------------- bounds
NProj == 2        \* project ids are 1..NProj
MaxId == 1        \* a list response holds the resources with ids 1..n, n <= MaxId
MaxChains == 1    \* initialize calls that start a request chain
MaxOverlap == 2   \* the same, where chains of two calls are to overlap
MaxPending == 2   \* getProject, getAllJobs and getAllJobTemplates send their
                  \* request only while fewer requests than this are outstanding
MaxPath == 4      \* a location has at most this many segments
MaxStale == 1     \* getRuns sends its queries only while at most this many
                  \* earlier requests are outstanding

\* JavaScript's null; it is falsy, every project id 1..NProj is truthy.
Null == 0

Falsy(x) == x = Null

\* The values a caller may pass as projectId.
ProjectArgs == Null..NProj

VARIABLES
    data,         \* globalState.data
    globalCache,  \* the $cacheFactory cache: key -> value
    heap,         \* the contents of the array data.runs refers to
    inflight,     \* the bag of requests sent and not yet answered
    event,        \* what the last handler did that its caller can observe
    chains,       \* history: one record per request chain of initialize
    batch,        \* history: the queries of the getRuns call that made data.runs
    memo,         \* history: what each getter returned first
    jobAllCalls,  \* history: the Job.all requests sent since the last reset
    location,     \* the path of the browser's location, as its segments
    current       \* $route.current: the route the location matched

serviceVars ==
    <<data, globalCache, heap, inflight, event, chains, batch, memo, jobAllCalls>>

routeVars == <<location, current>>

vars == <<serviceVars, routeVars>>

\* ------------------------------------------------------------ the cache
EmptyCache == [k \in {} |-> Null]

Put(cache, key, value) ==
    [k \in DOMAIN cache \cup {key} |-> IF k = key THEN value ELSE cache[k]]

RECURSIVE PutEach(_, _, _)
PutEach(cache, name, list) ==
    IF list = <<>> THEN cache
    ELSE PutEach(Put(cache, name \o "." \o ToString(Head(list).id), Head(list)),
                 name, Tail(list))

\* globalCache.put(name + '.all', list), then one put per element.
CacheAll(cache, name, list) ==
    PutEach(Put(cache, name \o ".all", list), name, list)

\* ------------------------------------------------------- remote responses
\* The ascending sequence of a finite set of numbers.
RECURSIVE Ascending(_)
Ascending(S) ==
    IF S = {} THEN <<>>
    ELSE LET m == CHOOSE x \in S : \A y \in S : x <= y
         IN <<m>> \o Ascending(S \ {m})

Resource(id, pid) == [id |-> id, project_id |-> pid]

\* What X.all({project_id: pid}) may answer: the first n resources of that
\* project, for any n up to MaxId.
Lists(pid) ==
    { [i \in 1..Len(ids) |-> Resource(ids[i], pid)] :
        ids \in { Ascending(1..n) : n \in 0..MaxId } }

\* cb names the callback that runs on success: the closure of a chain of
\* initialize or of a getRuns call, numbered by that chain or by the array the
\* call made; "fill" when only the returned object is filled.
Request(kind, pid, state, job, cb) ==
    [kind |-> kind, project_id |-> pid, state |-> state, job |-> job, cb |-> cb]

NoCallback == <<"none", 0>>

\* The bag of outstanding requests after sending reqs, and after the answer
\* to req has come.
Send(bag, reqs) == bag (+) SetToBag(reqs)

Answered(req) == inflight (-) SetToBag({req})

\* op, arg: the handler that ran and its argument; differs: whether the
\* argument differed from data.projectId at the call; ret: the object the
\* handler returned; cb: the caller's callback it invoked; err: whether it
\* threw a TypeError; sent: how many requests it sent.
Event(op, arg, differs, ret, cb, err, sent) ==
    [op |-> op, arg |-> arg, differs |-> differs, ret |-> ret, cb |-> cb,
     err |-> err, sent |-> sent]

Quiet(op, sent) == Event(op, Null, FALSE, Null, NoCallback, FALSE, sent)

GetterNames == {"getProject", "getAllJobs", "getAllJobTemplates", "getRuns"}

NoBatch == [project_id |-> Null, ref |-> Null, returned |-> <<>>, failed |-> FALSE]

\* Since the value of data.projectId last changed: first[g] is the object
\* getter g returned first, and refetch[g] tells whether a later call of g
\* sent a request.
NoMemo ==
    [first |-> [g \in GetterNames |-> Null],
     refetch |-> [g \in GetterNames |-> FALSE]]

MemoAfterReset(projectId) ==
    IF projectId # data.projectId THEN NoMemo ELSE memo

\* How many Job.all requests each of the three callers of Job.all has sent
\* since setProjectId or initialize last reset the data.
NoJobAll == [initialize |-> 0, getAllJobs |-> 0, getRuns |-> 0]

\* ------------------------------------------------------- the route table
\* A pattern and a path are sequences of segments; both end with a slash.
Param(name) == ":" \o name

\* The table with a controller of its own for the route of one job.
RoutesJobCtrl ==
    << [path |-> <<"project", Param("project"), "runs">>,
        controller |-> "RunsCtrl",
        templateUrl |-> "/static/job_runner/templates/runs.html"],
       [path |-> <<"project", Param("project"), "jobs">>,
        controller |-> "JobListCtrl",
        templateUrl |-> "/static/job_runner/templates/job_list.html"],
       [path |-> <<"project", Param("project"), "jobs", Param("job")>>,
        controller |-> "JobCtrl",
        templateUrl |-> "/static/job_runner/templates/job.html"] >>

Routes ==
    << [path |-> <<"project", Param("project"), "runs">>,
        controller |-> "RunsCtrl",
        templateUrl |-> "/static/job_runner/templates/runs.html"],
       [path |-> <<"project", Param("project"), "jobs">>,
        controller |-> "JobListCtrl",
        templateUrl |-> "/static/job_runner/templates/job_list.html"],
       [path |-> <<"project", Param("project"), "jobs", Param("job")>>,
        controller |-> "JobListCtrl",
        templateUrl |-> "/static/job_runner/templates/job_list.html"] >>

NoRoute == [path |-> <<>>, controller |-> "", templateUrl |-> ""]

IsParam(segment) == segment \in {Param("project"), Param("job")}

\* A path matches a pattern when every segment of the pattern that is no
\* parameter is the path's segment at that place.
Matches(pattern, path) ==
    /\ Len(pattern) = Len(path)
    /\ \A i \in DOMAIN pattern : IsParam(pattern[i]) \/ pattern[i] = path[i]

\* The first route of the table the path matches; there is no otherwise().
RouteOf(path) ==
    IF \E i \in DOMAIN Routes : Matches(Routes[i].path, path)
    THEN Routes[CHOOSE i \in DOMAIN Routes :
                   /\ Matches(Routes[i].path, path)
                   /\ \A j \in 1..(i - 1) : ~Matches(Routes[j].path, path)]
    ELSE NoRoute

Segments == {"project", "runs", "jobs", "7"}

Paths == UNION { [1..n -> Segments] : n \in 0..MaxPath }

\* ------------------------------------------------------------------ Init
Init ==
    /\ data = [project |-> Null, projectId |-> Null, page |-> Null,
               jobs |-> Null, jobTab |-> "details", jobTemplates |-> Null,
               jobFilter |-> "{}", runs |-> Null, wsConnected |-> FALSE]
    /\ globalCache = EmptyCache
    /\ heap = <<>>
    /\ inflight = EmptyBag
    /\ event = Quiet("init", 0)
    /\ chains = <<>>
    /\ batch = NoBatch
    /\ memo = NoMemo
    /\ jobAllCalls = NoJobAll
    /\ location = <<>>
    /\ current = NoRoute

\* "reset all data"
ResetData(projectId) ==
    [data EXCEPT !.projectId = projectId, !.project = Null, !.jobs = Null,
                 !.jobTemplates = Null, !.runs = Null]

\* The test of setProjectId and initialize that always succeeds.
MustResetAlways(projectId) == TRUE

MustReset(projectId) ==
    Falsy(data.projectId) \/ data.projectId # projectId

\* ------------------------------------------------------------ setProjectId
\* setProjectId without globalCache.removeAll() and without the reset of jobs.
setProjectIdKeeps(projectId) ==
    /\ IF MustReset(projectId)
       THEN /\ data' = [data EXCEPT !.projectId = projectId, !.project = Null,
                                    !.jobTemplates = Null, !.runs = Null]
            /\ heap' = <<>>
            /\ batch' = NoBatch
            /\ memo' = MemoAfterReset(projectId)
            /\ jobAllCalls' = NoJobAll
            /\ UNCHANGED globalCache
       ELSE UNCHANGED <<data, globalCache, heap, batch, memo, jobAllCalls>>
    /\ event' = Event("setProjectId", projectId, projectId # data.projectId,
                      Null, NoCallback, FALSE, 0)
    /\ UNCHANGED <<inflight, chains>>
    /\ UNCHANGED routeVars

setProjectId(projectId) ==
    /\ IF MustReset(projectId)
       THEN /\ data' = ResetData(projectId)
            /\ globalCache' = EmptyCache
            /\ heap' = <<>>
            /\ batch' = NoBatch
            /\ memo' = MemoAfterReset(projectId)
            /\ jobAllCalls' = NoJobAll
       ELSE UNCHANGED <<data, globalCache, heap, batch, memo, jobAllCalls>>
    /\ event' = Event("setProjectId", projectId, projectId # data.projectId,
                      Null, NoCallback, FALSE, 0)
    /\ UNCHANGED <<inflight, chains>>
    /\ UNCHANGED routeVars

\* -------------------------------------------------------------- initialize
NewChain(projectId) ==
    [project_id |-> projectId, issued |-> <<"Job.all">>, stored |-> <<>>,
     failed |-> FALSE, called |-> 0]

\* initialize while fewer than limit chains were started.
initializeWithin(limit, projectId) ==
    /\ IF MustReset(projectId)
       THEN /\ Len(chains) < limit
            /\ data' = ResetData(projectId)
            /\ globalCache' = EmptyCache
            /\ heap' = <<>>
            /\ inflight' = Send(inflight,
                  {Request("Job.all", projectId, "", Null,
                           <<"initialize.jobs", Len(chains) + 1>>)})
            /\ chains' = Append(chains, NewChain(projectId))
            /\ batch' = NoBatch
            /\ memo' = MemoAfterReset(projectId)
            /\ jobAllCalls' = [NoJobAll EXCEPT !.initialize = 1]
            /\ event' = Event("initialize", projectId,
                              projectId # data.projectId, Null, NoCallback, FALSE, 1)
       ELSE /\ event' = Event("initialize", projectId,
                              projectId # data.projectId, Null, <<"callback", 0>>,
                              FALSE, 0)
            /\ UNCHANGED <<data, globalCache, heap, inflight, chains, batch, memo,
                           jobAllCalls>>
    /\ UNCHANGED routeVars

initialize(projectId) == initializeWithin(MaxChains, projectId)

\* The callback of Job.all sending JobTemplate.all and Worker.all together.
initializeJobsParallel(req, jobs) ==
    /\ req.cb[1] = "initialize.jobs"
    /\ globalCache' = CacheAll(globalCache, "job", jobs)
    /\ inflight' = Send(Answered(req),
          {Request("JobTemplate.all", data.projectId, "", Null,
                   <<"initialize.jobTemplates", req.cb[2]>>),
           Request("Worker.all", data.projectId, "", Null,
                   <<"initialize.workers", req.cb[2]>>)})
    /\ chains' = [chains EXCEPT ![req.cb[2]].issued = Append(@, "JobTemplate.all"),
                             ![req.cb[2]].stored = Append(@, "job")]
    /\ event' = Quiet("initialize.jobs", 2)
    /\ UNCHANGED <<data, heap, batch, memo>>
    /\ UNCHANGED <<jobAllCalls, routeVars>>

\* The success callback of Job.all in initialize.
initializeJobs(req, jobs) ==
    /\ req.cb[1] = "initialize.jobs"
    /\ globalCache' = CacheAll(globalCache, "job", jobs)
    /\ inflight' = Send(Answered(req),
          {Request("JobTemplate.all", data.projectId, "", Null,
                   <<"initialize.jobTemplates", req.cb[2]>>)})
    /\ chains' = [chains EXCEPT ![req.cb[2]].issued = Append(@, "JobTemplate.all"),
                             ![req.cb[2]].stored = Append(@, "job")]
    /\ event' = Quiet("initialize.jobs", 1)
    /\ UNCHANGED <<data, heap, batch, memo>>
    /\ UNCHANGED <<jobAllCalls, routeVars>>

\* The success callback of JobTemplate.all in initialize.
initializeJobTemplates(req, jobTemplates) ==
    /\ req.cb[1] = "initialize.jobTemplates"
    /\ globalCache' = CacheAll(globalCache, "jobTemplate", jobTemplates)
    /\ inflight' = Send(Answered(req),
          {Request("Worker.all", data.projectId, "", Null,
                   <<"initialize.workers", req.cb[2]>>)})
    /\ chains' = [chains EXCEPT ![req.cb[2]].issued = Append(@, "Worker.all"),
                             ![req.cb[2]].stored = Append(@, "jobTemplate")]
    /\ event' = Quiet("initialize.jobTemplates", 1)
    /\ UNCHANGED <<data, heap, batch, memo>>
    /\ UNCHANGED <<jobAllCalls, routeVars>>

\* The callback of Worker.all without its call of callback().
initializeWorkersSilent(req, workers) ==
    /\ req.cb[1] = "initialize.workers"
    /\ globalCache' = CacheAll(globalCache, "worker", workers)
    /\ inflight' = Answered(req)
    /\ chains' = [chains EXCEPT ![req.cb[2]].stored = Append(@, "worker")]
    /\ event' = Quiet("initialize.workers", 0)
    /\ UNCHANGED <<data, heap, batch, memo>>
    /\ UNCHANGED <<jobAllCalls, routeVars>>

\* The success callback of Worker.all in initialize; it ends with callback().
initializeWorkers(req, workers) ==
    /\ req.cb[1] = "initialize.workers"
    /\ globalCache' = CacheAll(globalCache, "worker", workers)
    /\ inflight' = Answered(req)
    /\ chains' = [chains EXCEPT ![req.cb[2]].called = @ + 1,
                             ![req.cb[2]].stored = Append(@, "worker")]
    /\ event' = Event("initialize.workers", Null, FALSE, Null,
                      <<"callback", req.cb[2]>>, FALSE, 0)
    /\ UNCHANGED <<data, heap, batch, memo>>
    /\ UNCHANGED <<jobAllCalls, routeVars>>

\* ------------------------------------------------------------ the getters
ChainCallbacks ==
    {"initialize.jobs", "initialize.jobTemplates", "initialize.workers"}

RunCallbacks ==
    {"getRuns.scheduled", "getRuns.in_queue", "getRuns.started", "getRuns.jobs",
     "getRuns.completed"}

\* Objects are numbered per getter. Field(getter) is the field of data the
\* getter keeps its object in; LiveRefs(getter) are its objects something
\* still refers to, and a new object is none of them.
Field(getter) ==
    CASE getter = "getProject" -> data.project
      [] getter = "getAllJobs" -> data.jobs
      [] getter = "getAllJobTemplates" -> data.jobTemplates
      [] getter = "getRuns" -> data.runs

LiveRefs(getter) ==
    ({Field(getter), memo.first[getter]}
       \cup (IF event.op = getter THEN {event.ret} ELSE {})
       \cup (IF getter = "getRuns"
             THEN {req.cb[2] : req \in {r \in BagToSet(inflight) :
                                          r.cb[1] \in RunCallbacks}}
             ELSE {}))
    \ {Null}

NewRef(getter) ==
    CHOOSE r \in 1..(Cardinality(LiveRefs(getter)) + 1) :
        r \notin LiveRefs(getter) /\ \A q \in 1..(r - 1) : q \in LiveRefs(getter)

Outstanding == BagCardinality(inflight)

Remember(getter, ref, sends) ==
    [memo EXCEPT !.first[getter] = IF @ = Null THEN ref ELSE @,
                 !.refetch[getter] = @ \/ (sends /\ memo.first[getter] # Null)]

\* Project.get, Job.all and JobTemplate.all return a new object at once and
\* fill it when the response arrives; an object (an empty array too) is truthy.
getProject ==
    /\ IF data.project # Null
       THEN /\ event' = Event("getProject", Null, FALSE, data.project, NoCallback,
                              FALSE, 0)
            /\ memo' = Remember("getProject", data.project, FALSE)
            /\ UNCHANGED <<data, globalCache, heap, inflight, chains, batch>>
       ELSE /\ Outstanding < MaxPending
            /\ data' = [data EXCEPT !.project = NewRef("getProject")]
            /\ inflight' = Send(inflight,
                  {Request("Project.get", data.projectId, "", Null, <<"fill", 0>>)})
            /\ event' = Event("getProject", Null, FALSE, NewRef("getProject"), NoCallback, FALSE, 1)
            /\ memo' = Remember("getProject", NewRef("getProject"), TRUE)
            /\ UNCHANGED <<globalCache, heap, chains, batch>>
    /\ UNCHANGED <<jobAllCalls, routeVars>>

\* getAllJobs without the test of data.jobs.
getAllJobsAlwaysLoads ==
    /\ Outstanding < MaxPending
    /\ data' = [data EXCEPT !.jobs = NewRef("getAllJobs")]
    /\ inflight' = Send(inflight,
          {Request("Job.all", data.projectId, "", Null,
                   <<"getAllJobs.success", 0>>)})
    /\ event' = Event("getAllJobs", Null, FALSE, NewRef("getAllJobs"), NoCallback,
                      FALSE, 1)
    /\ memo' = Remember("getAllJobs", NewRef("getAllJobs"), TRUE)
    /\ jobAllCalls' = [jobAllCalls EXCEPT !.getAllJobs = @ + 1]
    /\ UNCHANGED <<globalCache, heap, chains, batch>>
    /\ UNCHANGED routeVars

getAllJobs ==
    /\ IF data.jobs # Null
       THEN /\ event' = Event("getAllJobs", Null, FALSE, data.jobs, NoCallback,
                              FALSE, 0)
            /\ memo' = Remember("getAllJobs", data.jobs, FALSE)
            /\ UNCHANGED <<data, globalCache, heap, inflight, chains, batch,
                           jobAllCalls>>
       ELSE /\ Outstanding < MaxPending
            /\ data' = [data EXCEPT !.jobs = NewRef("getAllJobs")]
            /\ inflight' = Send(inflight,
                  {Request("Job.all", data.projectId, "", Null,
                           <<"getAllJobs.success", 0>>)})
            /\ event' = Event("getAllJobs", Null, FALSE, NewRef("getAllJobs"), NoCallback, FALSE, 1)
            /\ memo' = Remember("getAllJobs", NewRef("getAllJobs"), TRUE)
            /\ jobAllCalls' = [jobAllCalls EXCEPT !.getAllJobs = @ + 1]
            /\ UNCHANGED <<globalCache, heap, chains, batch>>
    /\ UNCHANGED routeVars

getAllJobTemplates ==
    /\ IF data.jobTemplates # Null
       THEN /\ event' = Event("getAllJobTemplates", Null, FALSE, data.jobTemplates,
                              NoCallback, FALSE, 0)
            /\ memo' = Remember("getAllJobTemplates", data.jobTemplates, FALSE)
            /\ UNCHANGED <<data, globalCache, heap, inflight, chains, batch>>
       ELSE /\ Outstanding < MaxPending
            /\ data' = [data EXCEPT !.jobTemplates = NewRef("getAllJobTemplates")]
            /\ inflight' = Send(inflight,
                  {Request("JobTemplate.all", data.projectId, "", Null,
                           <<"fill", 0>>)})
            /\ event' = Event("getAllJobTemplates", Null, FALSE, NewRef("getAllJobTemplates"), NoCallback,
                              FALSE, 1)
            /\ memo' = Remember("getAllJobTemplates", NewRef("getAllJobTemplates"), TRUE)
            /\ UNCHANGED <<globalCache, heap, chains, batch>>
    /\ UNCHANGED <<jobAllCalls, routeVars>>

\* The response to a getter's request: the resource fills the object it
\* returned, which no field of the model reads; getAllJobs' caller gets its
\* success callback.
filled(req) ==
    /\ req.cb[1] \in {"fill", "getAllJobs.success"}
    /\ inflight' = Answered(req)
    /\ event' = Event("filled", Null, FALSE, Null,
                      IF req.cb[1] = "fill" THEN NoCallback ELSE req.cb, FALSE, 0)
    /\ UNCHANGED <<data, globalCache, heap, chains, batch, memo>>
    /\ UNCHANGED <<jobAllCalls, routeVars>>

\* ----------------------------------------------------------------- getRuns
Run(id, state, pid, job) ==
    [id |-> id, state |-> state, project_id |-> pid, job |-> job]

\* What Run.all({state: state, project_id: pid}) may answer.
RunLists(state, pid) ==
    { [i \in 1..Len(l) |-> Run(l[i].id, state, pid, Null)] : l \in Lists(pid) }

\* What Run.query({job: job, limit: 1, state: 'completed'}) may answer: the
\* request names no project; pid is the project of the job it names.
LatestRun(pid, job) ==
    { <<>>, <<Run(1, "completed", pid, job)>> }

RunStates == <<"scheduled", "in_queue", "started">>

\* getRuns without the return of the new list.
getRunsReturnsNothing ==
    /\ IF data.runs # Null
       THEN /\ event' = Event("getRuns", Null, FALSE, data.runs, NoCallback, FALSE, 0)
            /\ memo' = Remember("getRuns", data.runs, FALSE)
            /\ UNCHANGED <<data, globalCache, heap, inflight, chains, batch,
                           jobAllCalls>>
       ELSE /\ Outstanding <= MaxStale
            /\ data' = [data EXCEPT !.runs = NewRef("getRuns")]
            /\ heap' = <<>>
            /\ inflight' = Send(inflight,
                  { Request("Run.all", data.projectId, RunStates[i], Null,
                            <<"getRuns." \o RunStates[i], NewRef("getRuns")>>) :
                      i \in DOMAIN RunStates }
                  \cup { Request("Job.all", data.projectId, "", Null,
                                 <<"getRuns.jobs", NewRef("getRuns")>>) })
            /\ batch' = [project_id |-> data.projectId, ref |-> NewRef("getRuns"),
                         returned |-> <<>>, failed |-> FALSE]
            /\ event' = Event("getRuns", Null, FALSE, Null, NoCallback, FALSE, 4)
            /\ memo' = Remember("getRuns", NewRef("getRuns"), TRUE)
            /\ jobAllCalls' = [jobAllCalls EXCEPT !.getRuns = @ + 1]
            /\ UNCHANGED <<globalCache, chains>>
    /\ UNCHANGED routeVars

getRuns ==
    /\ IF data.runs # Null
       THEN /\ event' = Event("getRuns", Null, FALSE, data.runs, NoCallback, FALSE, 0)
            /\ memo' = Remember("getRuns", data.runs, FALSE)
            /\ UNCHANGED <<data, globalCache, heap, inflight, chains, batch,
                           jobAllCalls>>
       ELSE /\ Outstanding <= MaxStale
            /\ data' = [data EXCEPT !.runs = NewRef("getRuns")]
            /\ heap' = <<>>
            /\ inflight' = Send(inflight,
                  { Request("Run.all", data.projectId, RunStates[i], Null,
                            <<"getRuns." \o RunStates[i], NewRef("getRuns")>>) :
                      i \in DOMAIN RunStates }
                  \cup { Request("Job.all", data.projectId, "", Null,
                                 <<"getRuns.jobs", NewRef("getRuns")>>) })
            /\ batch' = [project_id |-> data.projectId, ref |-> NewRef("getRuns"),
                         returned |-> <<>>, failed |-> FALSE]
            /\ event' = Event("getRuns", Null, FALSE, NewRef("getRuns"), NoCallback, FALSE, 4)
            /\ memo' = Remember("getRuns", NewRef("getRuns"), TRUE)
            /\ jobAllCalls' = [jobAllCalls EXCEPT !.getRuns = @ + 1]
            /\ UNCHANGED <<globalCache, chains>>
    /\ UNCHANGED routeVars

\* angular.forEach(runs, function(run) { self.data.runs.push(run); }): the
\* push goes to whatever data.runs is when the response arrives, and throws
\* a TypeError on the first run when that is null.
PushEach(op, runs) ==
    IF runs # <<>> /\ data.runs = Null
    THEN /\ event' = Event(op, Null, FALSE, Null, NoCallback, TRUE, 0)
         /\ UNCHANGED heap
    ELSE /\ event' = Quiet(op, 0)
         /\ heap' = heap \o runs

\* The runs the queries of the current getRuns call have returned.
Returned(req, runs) ==
    IF req.cb[2] = batch.ref THEN [batch EXCEPT !.returned = @ \o runs] ELSE batch

\* The success callbacks of the three Run.all queries.
getRunsScheduled(req, runs) ==
    /\ req.cb[1] = "getRuns.scheduled"
    /\ PushEach("getRuns.scheduled", runs)
    /\ inflight' = Answered(req)
    /\ batch' = Returned(req, runs)
    /\ UNCHANGED <<data, globalCache, chains, memo>>
    /\ UNCHANGED <<jobAllCalls, routeVars>>

getRunsInQueue(req, runs) ==
    /\ req.cb[1] = "getRuns.in_queue"
    /\ PushEach("getRuns.in_queue", runs)
    /\ inflight' = Answered(req)
    /\ batch' = Returned(req, runs)
    /\ UNCHANGED <<data, globalCache, chains, memo>>
    /\ UNCHANGED <<jobAllCalls, routeVars>>

getRunsStarted(req, runs) ==
    /\ req.cb[1] = "getRuns.started"
    /\ PushEach("getRuns.started", runs)
    /\ inflight' = Answered(req)
    /\ batch' = Returned(req, runs)
    /\ UNCHANGED <<data, globalCache, chains, memo>>
    /\ UNCHANGED <<jobAllCalls, routeVars>>

\* The success callback of Job.all in getRuns: one Run.query per job.
getRunsJobs(req, jobs) ==
    /\ req.cb[1] = "getRuns.jobs"
    /\ inflight' = Send(Answered(req),
          { Request("Run.query", jobs[i].project_id, "completed", jobs[i].id,
                    <<"getRuns.completed", req.cb[2]>>) : i \in DOMAIN jobs })
    /\ event' = Quiet("getRuns.jobs", Len(jobs))
    /\ UNCHANGED <<data, globalCache, heap, chains, batch, memo>>
    /\ UNCHANGED <<jobAllCalls, routeVars>>

\* The success callback of one Run.query.
getRunsCompleted(req, runs) ==
    /\ req.cb[1] = "getRuns.completed"
    /\ PushEach("getRuns.completed", runs)
    /\ inflight' = Answered(req)
    /\ batch' = Returned(req, runs)
    /\ UNCHANGED <<data, globalCache, chains, memo>>
    /\ UNCHANGED <<jobAllCalls, routeVars>>

\* A failure handled by sending the request again.
failRetries(req) ==
    /\ UNCHANGED inflight
    /\ chains' = IF req.cb[1] \in ChainCallbacks
                 THEN [chains EXCEPT ![req.cb[2]].failed = TRUE,
                                     ![req.cb[2]].issued = Append(@, req.kind)]
                 ELSE chains
    /\ UNCHANGED batch
    /\ event' = Quiet("fail", 1)
    /\ UNCHANGED <<data, globalCache, heap, memo>>
    /\ UNCHANGED <<jobAllCalls, routeVars>>

\* A request that fails: no call passes an error callback, so nothing runs.
fail(req) ==
    /\ inflight' = Answered(req)
    /\ chains' = IF req.cb[1] \in ChainCallbacks
                 THEN [chains EXCEPT ![req.cb[2]].failed = TRUE]
                 ELSE chains
    /\ batch' = IF req.cb[1] \in RunCallbacks /\ req.cb[2] = batch.ref
                THEN [batch EXCEPT !.failed = TRUE]
                ELSE batch
    /\ event' = Quiet("fail", 0)
    /\ UNCHANGED <<data, globalCache, heap, memo>>
    /\ UNCHANGED <<jobAllCalls, routeVars>>

\* The location changes and $route picks the route.
navigate(path) ==
    /\ location' = path
    /\ current' = RouteOf(path)
    /\ UNCHANGED serviceVars

\* ------------------------------------------------------- specifications
Calls ==
    \/ \E projectId \in ProjectArgs : setProjectId(projectId)
    \/ \E projectId \in ProjectArgs : initialize(projectId)

ChainResponses ==
    \/ \E req \in BagToSet(inflight) : \E jobs \in Lists(req.project_id) :
          initializeJobs(req, jobs)
    \/ \E req \in BagToSet(inflight) : \E jobTemplates \in Lists(req.project_id) :
          initializeJobTemplates(req, jobTemplates)
    \/ \E req \in BagToSet(inflight) : \E workers \in Lists(req.project_id) :
          initializeWorkers(req, workers)

Getters ==
    \/ getProject
    \/ getAllJobs
    \/ getAllJobTemplates
    \/ \E req \in BagToSet(inflight) : filled(req)

RunResponses ==
    \/ \E req \in BagToSet(inflight) : \E runs \in RunLists(req.state, req.project_id) :
          getRunsScheduled(req, runs)
    \/ \E req \in BagToSet(inflight) : \E runs \in RunLists(req.state, req.project_id) :
          getRunsInQueue(req, runs)
    \/ \E req \in BagToSet(inflight) : \E runs \in RunLists(req.state, req.project_id) :
          getRunsStarted(req, runs)
    \/ \E req \in BagToSet(inflight) : \E jobs \in Lists(req.project_id) :
          getRunsJobs(req, jobs)
    \/ \E req \in BagToSet(inflight) : \E runs \in LatestRun(req.project_id, req.job) :
          getRunsCompleted(req, runs)

Failure == \E req \in BagToSet(inflight) : fail(req)

\* The whole service.
Navigation == \E path \in Paths : navigate(path)

Next ==
    \/ Calls
    \/ ChainResponses
    \/ Getters
    \/ getRuns
    \/ RunResponses
    \/ Failure
    \/ Navigation

Spec == Init /\ [][Next]_vars

\* The project switch with the request chain of initialize.
NextInitialize == Calls \/ ChainResponses \/ Failure

SpecInitialize == Init /\ [][NextInitialize]_vars

\* The project switch with the run list.
NextRuns ==
    \/ \E projectId \in ProjectArgs : setProjectId(projectId)
    \/ getRuns
    \/ RunResponses

SpecRuns == Init /\ [][NextRuns]_vars

\* The project switch with the four getters.
NextGetters ==
    \/ \E projectId \in ProjectArgs : setProjectId(projectId)
    \/ Getters
    \/ getRuns
    \/ Failure

SpecGetters == Init /\ [][NextGetters]_vars

\* The project switch with everything it resets.
NextSwitch == Calls \/ ChainResponses \/ Getters \/ getRuns

SpecSwitch == Init /\ [][NextSwitch]_vars

\* The route table alone.
SpecRoutes == Init /\ [][Navigation]_vars

\* Chains of several initialize calls, their requests outstanding together.
NextOverlap ==
    \/ \E projectId \in ProjectArgs : setProjectId(projectId)
    \/ \E projectId \in ProjectArgs : initializeWithin(MaxOverlap, projectId)
    \/ ChainResponses

SpecOverlap == Init /\ [][NextOverlap]_vars

\* The same where every request of a chain is answered with success in the
\* end: no request fails, and a response that can arrive does.
SpecAnswered == Init /\ [][NextOverlap]_vars /\ WF_vars(ChainResponses)

\* ------------------------------------------------------------- properties
Resets == {"setProjectId", "initialize"}

DataIsReset ==
    /\ data.project = Null
    /\ data.jobs = Null
    /\ data.jobTemplates = Null
    /\ data.runs = Null

\* C1: right after setProjectId(p) or initialize(p, callback) with p other
\* than data.projectId, the cache is empty, the four loaded fields of data
\* are null and data.projectId is p.
C1_ClearedOnChange ==
    (event.op \in Resets /\ event.differs) =>
        /\ globalCache = EmptyCache
        /\ DataIsReset
        /\ data.projectId = event.arg

\* A switch to project 2 after a chain has filled the cache, getProject has
\* handed out an object and getRuns an array, their requests still outstanding.
C1_Witness ==
    /\ event.op = "setProjectId"
    /\ event.differs
    /\ event.arg = 2
    /\ \E c \in DOMAIN chains : chains[c].stored # <<>>
    /\ \E req \in BagToSet(inflight) : req.kind = "Project.get"
    /\ \E req \in BagToSet(inflight) : req.kind = "Run.all"

LoadedKeys == {"job.all", "jobTemplate.all", "worker.all"}

\* C2: whenever initialize invokes its callback, the cache holds 'job.all',
\* 'jobTemplate.all' and 'worker.all'.
C2_CallbackAfterLoad ==
    event.cb[1] = "callback" => LoadedKeys \subseteq DOMAIN globalCache

ChainOrder == <<"Job.all", "JobTemplate.all", "Worker.all">>

StoreOrder == <<"job", "jobTemplate", "worker">>

IsPrefix(s, t) == Len(s) <= Len(t) /\ \A i \in DOMAIN s : s[i] = t[i]

\* The requests of chain c that are outstanding.
OutstandingOf(c) ==
    LET mine == {req \in BagToSet(inflight) :
                    req.cb[1] \in ChainCallbacks /\ req.cb[2] = c}
    IN BagCardinality([req \in mine |-> inflight[req]])

\* C5: a chain of initialize sends Job.all, JobTemplate.all and Worker.all in
\* this order, each only after the response to the one before is stored in
\* the cache, and never has two requests outstanding.
C5_Sequential ==
    /\ \A c \in DOMAIN chains :
          /\ IsPrefix(chains[c].issued, ChainOrder)
          /\ IsPrefix(chains[c].stored, StoreOrder)
          /\ Len(chains[c].issued) <= Len(chains[c].stored) + 1
          /\ OutstandingOf(c) <= 1
    /\ event.op = "initialize.jobs" =>
          "job.all" \in DOMAIN globalCache /\ event.sent = 1
    /\ event.op = "initialize.jobTemplates" =>
          "jobTemplate.all" \in DOMAIN globalCache /\ event.sent = 1

\* The Worker.all request of a chain is outstanding, after the two before it
\* were answered and stored.
C5_Witness ==
    \E c \in DOMAIN chains :
        /\ chains[c].issued = ChainOrder
        /\ chains[c].stored = <<"job", "jobTemplate">>
        /\ OutstandingOf(c) = 1

\* C7: no request of a chain is sent twice; a failure changes nothing in the
\* cache, sends nothing and invokes nothing; a chain one of whose requests
\* failed has no request outstanding and its callback was not invoked; and
\* a callback is invoked only after all three responses.
C7_NoRetry ==
    [][ /\ event'.op = "fail" =>
              /\ globalCache' = globalCache
              /\ event'.sent = 0
              /\ event'.cb = NoCallback
        /\ \A c \in DOMAIN chains' :
              /\ IsPrefix(chains'[c].issued, ChainOrder)
              /\ chains'[c].called <= 1
              /\ chains'[c].called = 1 => chains'[c].stored = StoreOrder
              /\ chains'[c].failed =>
                    /\ chains'[c].called = 0
                    /\ Len(chains'[c].stored) < 3
                    /\ Len(chains'[c].issued) = Len(chains'[c].stored) + 1
                    /\ \A req \in BagToSet(inflight') :
                          ~(req.cb[1] \in ChainCallbacks /\ req.cb[2] = c)
      ]_vars

\* The JobTemplate.all request of a chain failed: the cache keeps 'job.all'.
C7_Witness ==
    /\ event.op = "fail"
    /\ "job.all" \in DOMAIN globalCache
    /\ \E c \in DOMAIN chains :
          chains[c].failed /\ chains[c].issued = <<"Job.all", "JobTemplate.all">>

\* The projects the entries of the cache were requested for.
CachedFor ==
    { globalCache[k].project_id : k \in DOMAIN globalCache \ LoadedKeys }
    \cup UNION { { globalCache[k][i].project_id : i \in DOMAIN globalCache[k] } :
                 k \in DOMAIN globalCache \cap LoadedKeys }

\* C9: every entry of the cache was returned by a request made for the
\* current data.projectId.
C9_CacheOfActiveProject == CachedFor \subseteq {data.projectId}

\* The queries of the getRuns call that made array ref that are outstanding.
QueriesOf(ref) ==
    {req \in BagToSet(inflight) : req.cb[1] \in RunCallbacks /\ req.cb[2] = ref}

BagOfSeq(seq) ==
    [x \in {seq[i] : i \in DOMAIN seq} |->
        Cardinality({i \in DOMAIN seq : seq[i] = x})]

C4_MergedExactly ==
    (batch.ref # Null /\ ~batch.failed /\ QueriesOf(batch.ref) = {}) =>
        /\ data.runs = batch.ref
        /\ BagOfSeq(heap) = BagOfSeq(batch.returned)

\* C10: every run in data.runs was returned by a query sent for the current
\* data.projectId.
C10_RunsOfActiveProject ==
    \A i \in DOMAIN heap : heap[i].project_id = data.projectId

\* C6 as stated: while the value of data.projectId does not change, a getter
\* sends requests on its first call only and every call returns the object
\* the first call returned.
C6_Original ==
    \A g \in GetterNames :
        /\ ~memo.refetch[g]
        /\ event.op = g => event.ret = memo.first[g]

\* C6 as amended: until setProjectId or initialize resets the data (called
\* with another id, or with any id while data.projectId is empty), a getter
\* that finds its object returns that very object and sends nothing; a
\* getter that finds none returns the object it stores; and only such a
\* reset takes a stored object away.
C6_Amended ==
    [][ \A g \in GetterNames :
          /\ (event'.op = g /\ Field(g) # Null) =>
                /\ event'.ret = Field(g)
                /\ event'.sent = 0
                /\ inflight' = inflight
                /\ Field(g)' = Field(g)
          /\ (event'.op = g /\ Field(g) = Null) =>
                /\ event'.ret # Null
                /\ event'.ret = Field(g)'
                /\ event'.sent > 0
          /\ (Field(g) # Null /\ Field(g)' # Field(g)) =>
                /\ event'.op \in Resets
                /\ MustReset(event'.arg)
                /\ Field(g)' = Null
      ]_vars

\* A second call of getRuns returns the first call's list while queries of
\* the first call are outstanding.
C6_Witness ==
    /\ event.op = "getRuns"
    /\ event.sent = 0
    /\ event.ret = memo.first["getRuns"]
    /\ event.ret # Null
    /\ QueriesOf(event.ret) # {}

IsRunsPath(path) ==
    Len(path) = 3 /\ path[1] = "project" /\ path[3] = "runs"

IsJobsPath(path) ==
    /\ Len(path) \in {3, 4}
    /\ path[1] = "project"
    /\ path[3] = "jobs"

\* C8: a location of the form /project/:project/runs/ gets RunsCtrl with
\* runs.html, one of the form /project/:project/jobs/ or
\* /project/:project/jobs/:job/ gets JobListCtrl with job_list.html, and no
\* other location gets a route.
C8_RouteTable ==
    /\ IsRunsPath(location) =>
          /\ current.controller = "RunsCtrl"
          /\ current.templateUrl = "/static/job_runner/templates/runs.html"
    /\ IsJobsPath(location) =>
          /\ current.controller = "JobListCtrl"
          /\ current.templateUrl = "/static/job_runner/templates/job_list.html"
    /\ ~IsRunsPath(location) /\ ~IsJobsPath(location) => current = NoRoute
    /\ Len(Routes) = 3
    /\ Cardinality({Routes[i].controller : i \in DOMAIN Routes}) = 2

\* The location of one job of a project.
C8_Witness ==
    /\ location = <<"project", "7", "jobs", "7">>
    /\ current.controller = "JobListCtrl"

\* C11: no response callback of a getRuns query pushes on a null data.runs
\* (no handler throws the TypeError of null.push).
C11_PushOnList == ~event.err

\* C12: every request of a chain of initialize(p, callback) is made for p,
\* the project id given to that call.
C12_ChainOfOneProject ==
    \A req \in BagToSet(inflight) :
        req.cb[1] \in ChainCallbacks =>
            req.project_id = chains[req.cb[2]].project_id

\* C13: when every request is answered with success in the end, a call of
\* initialize that starts a chain has its callback invoked in the end (time
\* and again every chain started so far has invoked it, and an invocation
\* is never undone), never more than once, and a call that starts none
\* invokes it once, in the call.
C13_CallbackOnce ==
    /\ []<>(\A c \in DOMAIN chains : chains[c].called = 1)
    /\ [](\A c \in DOMAIN chains : chains[c].called <= 1)
    /\ [][ /\ event'.op = "initialize" =>
                 IF MustReset(event'.arg)
                 THEN /\ event'.cb = NoCallback
                      /\ Len(chains') = Len(chains) + 1
                      /\ chains'[Len(chains')].called = 0
                 ELSE /\ event'.cb = <<"callback", 0>>
                      /\ chains' = chains
           /\ \A c \in DOMAIN chains :
                 chains'[c].called # chains[c].called =>
                    /\ event'.cb = <<"callback", c>>
                    /\ chains'[c].called = chains[c].called + 1
         ]_vars

\* The callback of the first chain is invoked after that of the second: the
\* two chains overlapped and both calls got their callback.
C13_Witness ==
    /\ event.cb = <<"callback", 1>>
    /\ Len(chains) = 2
    /\ chains[1].called = 1
    /\ chains[2].called = 1

\* C14: setProjectId(p) or initialize(p, callback) with p the current,
\* non-empty data.projectId changes neither the cache nor any field of data
\* (nor the run list), sends no request, and initialize invokes callback in
\* the call.
C14_KeptWhenSame ==
    [][ (/\ event'.op \in Resets
         /\ ~Falsy(data.projectId)
         /\ event'.arg = data.projectId) =>
            /\ globalCache' = globalCache
            /\ data' = data
            /\ heap' = heap
            /\ inflight' = inflight
            /\ event'.sent = 0
            /\ ~event'.differs
            /\ event'.op = "initialize" => event'.cb = <<"callback", 0>>
      ]_vars

\* initialize(p) for the active project p, with the cache filled by a chain,
\* a project object and a run list handed out: all are still there.
C14_Witness ==
    /\ event.op = "initialize"
    /\ event.arg = data.projectId
    /\ ~Falsy(event.arg)
    /\ event.cb = <<"callback", 0>>
    /\ LoadedKeys \subseteq DOMAIN globalCache
    /\ data.project # Null
    /\ data.runs # Null

JobAllTotal ==
    jobAllCalls.initialize + jobAllCalls.getAllJobs + jobAllCalls.getRuns

\* C15 as stated: between two changes of data.projectId at most one Job.all
\* request is sent by initialize, getAllJobs and getRuns together. Every
\* change of data.projectId resets the data, so the requests sent since the
\* last reset were all sent since the last change.
C15_Original == JobAllTotal <= 1

\* C15 as amended: between two resets of the data by setProjectId or
\* initialize, each of initialize, getAllJobs and getRuns sends at most one
\* Job.all request; initialize sends its one in the call that resets.
C15_Amended ==
    /\ jobAllCalls.initialize <= 1
    /\ jobAllCalls.getAllJobs <= 1
    /\ jobAllCalls.getRuns <= 1
    /\ (event.op = "initialize" /\ event.sent > 0) =>
          jobAllCalls = [NoJobAll EXCEPT !.initialize = 1]
    /\ (event.op = "initialize" /\ event.sent = 0) =>
          event.cb = <<"callback", 0>>

\* Three Job.all requests for the active project: the chain's, then
\* getAllJobs' and getRuns', and a second getAllJobs call that sent none.
C15_Witness ==
    /\ ~Falsy(data.projectId)
    /\ jobAllCalls = [initialize |-> 1, getAllJobs |-> 1, getRuns |-> 1]
    /\ event.op = "getAllJobs"
    /\ event.sent = 0

\* The ids that have a key name.<id> in the cache.
IndexOf(name) ==
    { id \in 1..MaxId : (name \o "." \o ToString(id)) \in DOMAIN globalCache }

\* C16: when the cache holds 'job.all', its keys 'job.<id>' are those of the
\* ids of the jobs in 'job.all' and each maps to that job; the same for
\* 'jobTemplate' and 'worker'.
C16_IndexAgrees ==
    \A name \in {"job", "jobTemplate", "worker"} :
        (name \o ".all") \in DOMAIN globalCache =>
            LET all == globalCache[name \o ".all"]
            IN /\ IndexOf(name) = { all[i].id : i \in DOMAIN all }
               /\ \A i \in DOMAIN all :
                     globalCache[name \o "." \o ToString(all[i].id)] = all[i]

====
